---- MODULE Spec2Model ----
(***************************************************************************)
(* Model of src/lib/firebase-service.ts: the dual-write operations that    *)
(* write a record to the relational store (Supabase) and then mirror it    *)
(* and an activity-feed entry to the real-time store (Firebase).           *)
(*                                                                         *)
(* Every exported async function is a call that runs on the single event   *)
(* loop: its synchronous prefix is one action, and every `await` is one    *)
(* further action, taken when the awaited store call settles.  The two     *)
(* stores are collaborators: each store call settles with one of the       *)
(* outcomes its client library can produce (a row, no row, a rejection).   *)
(*                                                                         *)
(* Specifications:                                                         *)
(*   Spec               the dual-write operations (creates, status updates)*)
(*   SpecConfig         the same under every process.env configuration     *)
(*   SpecDates          the default dates createDonation and               *)
(*                      createRequirement store                            *)
(*   SpecAnalytics      getAnalyticsData and its 30 s cache                *)
(*   SpecSubscriptions  the four subscription entry points, their queries  *)
(*                      and change handlers, with failing queries          *)
(*   SpecSameFilter     up to two subscriptions on one filter, no failures *)
(*   SpecStatusUpdates  updateDonationStatus and updateRequirementStatus   *)
(*                      on the ids of records of an earlier session        *)
(*   SpecTranslations   the status conditionals, on any status string      *)
(*   SpecListeners      the mock-mode listener lists and subscribe()       *)
(***************************************************************************)
EXTENDS Integers, Sequences, FiniteSets, Bags, TLC

\* ------------------------------------------------------------------ bounds
MaxCalls == 2        \* calls of exported functions made in one behaviour
MaxInFlight == 1     \* calls suspended at an await at the same time
MaxTicks == 2        \* the clock stops after about MaxTicks * CACHE_DURATION
MaxAnalyticsCalls == 2  \* calls of getAnalyticsData in one behaviour
MaxSubscriptionCalls == 3  \* subscribe and unsubscribe calls in a behaviour
MaxChanges == 1         \* changes committed to the relational tables
MaxTranslations == 2    \* status translations evaluated in one behaviour
MaxRegistrations == 3   \* subscribe(listeners, callback) calls
MaxHandleCalls == 2     \* calls of one returned unsubscribe function

\* ------------------------------------------------------------- identities
\* An id is <<kind, n>>: "sql" ids are assigned by the relational store,
\* "push" keys by push() of the real-time store, "mock" ids are the literal
\* ids '1', '2' of mockMatches.  NoId is the empty string '' (falsy).
NoId == <<"none", 0>>
SqlId(n) == <<"sql", n>>
PushKey(n) == <<"push", n>>
MockId(n) == <<"mock", n>>

\* ------------------------------------------------------ status vocabularies
DonationStatuses == {"pending", "matched", "completed", "expired"}
RequirementStatuses == {"active", "matched", "fulfilled"}
MatchStatuses == {"pending", "confirmed", "completed", "cancelled"}
FoodItemStatuses == {"available", "reserved", "collected", "expired"}
RequestStatuses == {"active", "matched", "fulfilled"}

\* mutant: 'matched' falls through to the next branch's value
DonationStatusToSupabaseShifted(status) ==
    IF status = "pending" THEN "available"
    ELSE IF status = "matched" THEN "collected"
    ELSE IF status = "completed" THEN "collected"
    ELSE "expired"

\* updateDonationStatus: FoodDonation status -> food_items status
DonationStatusToSupabase(status) ==
    IF status = "pending" THEN "available"
    ELSE IF status = "matched" THEN "reserved"
    ELSE IF status = "completed" THEN "collected"
    ELSE "expired"

\* convertSupabaseToFoodDonation: food_items status -> FoodDonation status
DonationStatusFromSupabase(status) ==
    IF status = "available" THEN "pending"
    ELSE IF status = "reserved" THEN "matched"
    ELSE IF status = "collected" THEN "completed"
    ELSE "expired"

\* updateRequirementStatus: FoodRequirement status -> requests status
RequirementStatusToSupabase(status) ==
    IF status = "active" THEN "active"
    ELSE IF status = "matched" THEN "matched"
    ELSE "fulfilled"

\* convertSupabaseToRequirement (getRequirementsByReceiver)
RequirementStatusFromSupabase(status) ==
    IF status = "active" THEN "active"
    ELSE IF status = "matched" THEN "matched"
    ELSE "fulfilled"

\* convertSupabaseToRequirement (listenToActiveRequirements): status: item.status
RequirementStatusFromSupabaseListen(status) == status

\* createMatch: Match status -> transactions status
MatchStatusToSupabase(status) ==
    IF status = "confirmed" THEN "completed"
    ELSE IF status = "pending" THEN "pending"
    ELSE "completed"

\* ------------------------------------------------------------------ errors
SqlError == "SqlError"            \* a rejection of a relational store call
MirrorError == "MirrorError"      \* a rejection of a real-time store call
NoError == "none"
FailedToSave(what) == <<"Failed to save to Supabase", what>>

\* ------------------------------------------------------------------- state
VARIABLES
    databaseApp,     \* getDatabaseAvailabilitySync(): database && database.app
    foodItems,       \* relational table food_items: id -> row
    requests,        \* relational table requests: id -> row
    transactions,    \* relational table transactions: id -> row
    nextSqlId,       \* the relational store's id generator
    donations,       \* mirror path donations/<key> -> record
    requirements,    \* mirror path requirements/<key> -> record
    matches,         \* mirror path matches/<key> -> record
    activityFeed,    \* mirror path activity_feed/<key> -> entry
    nextPushKey,     \* push(): the key generator of the real-time store
    mockMatches,     \* the module's mockMatches array: mock id -> status
    calls,           \* the calls suspended at an await: a bag of call records
    returned,        \* the call the last step settled (NoCall: none did)
    nCalls,          \* calls made so far
    resolved,        \* history: calls that resolved, by kind of operation
    env,             \* process.env: the two Firebase configuration values
    now,             \* Date.now(): the wall clock, in ms
    built,           \* the row and the mirror record the last create built
    analyticsCache,     \* let analyticsCache: the cached object, or null
    analyticsCacheTime, \* let analyticsCacheTime
    nextObject,      \* identity of the next object literal that is evaluated
    analytics,       \* the getAnalyticsData calls suspended at an await
    served,          \* history: the getAnalyticsData call that settled last
    prev,            \* history: the one that settled before it
    subs,            \* the subscriptions made, in the order of the calls
    fetches,         \* the queries of the subscriptions that are in flight
    version,         \* history: per table, the changes committed so far
    unhandled,       \* history: promise rejections that nothing handles
    translations,    \* history: the status translations evaluated
    listeners,       \* donationsListeners and requirementsListeners
    handles          \* the unsubscribe functions subscribe() has returned

vars == <<databaseApp, foodItems, requests, transactions, nextSqlId,
          donations, requirements, matches, activityFeed, nextPushKey,
          mockMatches, calls, returned, nCalls, resolved, env, now, built,
          analyticsCache, analyticsCacheTime, nextObject, analytics, served,
          prev, subs, fetches, version, unhandled, translations, listeners, handles>>

\* what the dual-write operations neither read nor write
cacheVars == <<analyticsCache, analyticsCacheTime, nextObject, analytics,
               served, prev>>
subsVars == <<subs, fetches, version, unhandled>>
miscVars == <<translations, listeners, handles>>
otherVars == <<env, now, built, cacheVars, subsVars, miscVars>>

relVars == <<foodItems, requests, transactions, nextSqlId>>
mirrorVars == <<donations, requirements, matches, activityFeed>>

EmptyMap == <<>>

\* f with key k bound to v (set(ref, v) on a path, an insert of a row)
Put(f, k, v) == [x \in (DOMAIN f) \cup {k} |-> IF x = k THEN v ELSE f[x]]

\* ------------------------------------------------------------ call records
Event(store, kind, path, state) ==
    [store |-> store, kind |-> kind, path |-> path, state |-> state]

NewCall(op, status, sqlStatus, target, matchedWith, pc, writes) ==
    [op |-> op, status |-> status, sqlStatus |-> sqlStatus, target |-> target,
     matchedWith |-> matchedWith, pc |-> pc,
     rid |-> NoId, mkey |-> NoId, fkey |-> NoId,
     outcome |-> "pending", value |-> NoId, error |-> NoError,
     writes |-> writes]

\* the last store call of c settles with `state`
Settle(c, state) ==
    [c EXCEPT !.writes[Len(c.writes)].state = state]

Issue(c, store, kind, path) ==
    [c EXCEPT !.writes = Append(c.writes, Event(store, kind, path, "issued"))]

\* push(ref) makes a key locally and settles at once
Pushed(c, path) ==
    [c EXCEPT !.writes = Append(c.writes, Event("mirror", "push", path, "ok"))]

Resolve(c, value) ==
    [c EXCEPT !.pc = "done", !.outcome = "resolved", !.value = value]

Reject(c, error) ==
    [c EXCEPT !.pc = "done", !.outcome = "rejected", !.error = error]

CreateOps == {"createDonation", "createRequirement", "createMatch"}
UpdateOps == {"updateDonationStatus", "updateRequirementStatus",
              "updateMatchStatus"}

NoCall == NewCall("none", "none", "none", NoId, NoId, "none", <<>>)

CanCall == nCalls < MaxCalls /\ BagCardinality(calls) < MaxInFlight

\* the suspended calls without one copy of call i
Remove(bag, i) == bag (-) SetToBag({i})

Count(c) ==
    IF c.outcome # "resolved" THEN resolved
    ELSE IF c.op \in CreateOps
         THEN [resolved EXCEPT !.creates = @ + 1]
         ELSE [resolved EXCEPT !.updates = @ + 1]

\* a new call suspends at its first await
Suspend(c) ==
    /\ calls' = calls (+) SetToBag({c})
    /\ nCalls' = nCalls + 1
    /\ returned' = NoCall
    /\ UNCHANGED <<resolved, otherVars>>

\* call i goes on to its next await as c
Continue(i, c) ==
    /\ calls' = Remove(calls, i) (+) SetToBag({c})
    /\ returned' = NoCall
    /\ UNCHANGED <<nCalls, resolved, otherVars>>

\* call i settles as c: its promise resolves or rejects
Return(i, c) ==
    /\ calls' = Remove(calls, i)
    /\ returned' = c
    /\ resolved' = Count(c)
    /\ UNCHANGED <<nCalls, otherVars>>

At(i, op, pc) == i \in DOMAIN calls /\ i.op = op /\ i.pc = pc

\* a real-time store write is accepted or throws; without an initialised
\* database (database && database.app falsy) ref()/set() can only throw, which
\* the model records as a write that was attempted and rejected
MirrorOutcomes == IF databaseApp THEN {"ok", "throw"} ELSE {"throw"}

\* ------------------------------------------------------- catch blocks
\* createDonation, lines 388-391: catch (error) { log; throw error }
createDonationCatch(c, error) == Reject(c, error)

\* createRequirement, lines 601-604: catch (error) { log; throw error }
createRequirementCatch(c, error) == Reject(c, error)

\* mutant: the catch throws a new error in place of the one it caught
createMatchCatchWrapped(c, error) == Reject(c, "Error creating match")

\* createMatch, lines 728-731: catch (error) { log; throw error }
createMatchCatch(c, error) == Reject(c, error)

\* updateDonationStatus, lines 427-430: catch (error) { log; throw error }
updateDonationStatusCatch(c, error) == Reject(c, error)

\* updateDonationStatus, lines 424-426: catch (firebaseError) { warn }, and
\* the function returns
updateDonationStatusSyncFailed(c, firebaseError) == Resolve(c, NoId)

\* updateRequirementStatus, lines 465-468: catch (error) { log; throw error }
updateRequirementStatusCatch(c, error) == Reject(c, error)

\* mutant: the mirror update is not wrapped in a try of its own
updateRequirementStatusSyncThrows(c, firebaseError) == Reject(c, firebaseError)

\* updateRequirementStatus, lines 462-464: catch (firebaseError) { warn }
updateRequirementStatusSyncFailed(c, firebaseError) == Resolve(c, NoId)

\* mutant: set(activityRef, ...) on the feed itself, not on the pushed key
LogActivityAtFeedRoot(feed, newKey, type, subject) ==
    Put(feed, NoId, [id |-> newKey, type |-> type, subject |-> subject])

\* mutant: set(activityRef, {[key]: entry}) on the feed, which replaces it
LogActivityReplacingFeed(feed, newKey, type, subject) ==
    [k \in {newKey} |-> [id |-> newKey, type |-> type, subject |-> subject]]

\* set(newActivityRef, {id: newActivityRef.key, type, ...}): the entry is
\* written under the key push(activityRef) made
LogActivity(feed, newKey, type, subject) ==
    Put(feed, newKey, [id |-> newKey, type |-> type, subject |-> subject])

\* ----------------------------------------------------------- configuration
\* process.env.NEXT_PUBLIC_FIREBASE_API_KEY and ..._PROJECT_ID: unset, the
\* placeholder of the demo configuration, or a value of a real project
ApiKeys == {"", "demo-api-key", "api-key"}
ProjectIds == {"", "demo-project", "project"}
Envs == [apiKey : ApiKeys, projectId : ProjectIds]
ConfiguredEnv == [apiKey |-> "api-key", projectId |-> "project"]

\* lines 276-294: isDatabaseAvailable().  No function of the file calls it.
isDatabaseAvailable ==
    /\ env.apiKey # "" /\ env.apiKey # "demo-api-key"
    /\ env.projectId # "" /\ env.projectId # "demo-project"

\* -------------------------------------------------------------------- Init
\* the stores and the module's own state when the module has been loaded
InitStores ==
    /\ databaseApp \in BOOLEAN
    /\ foodItems = EmptyMap
    /\ requests = EmptyMap
    /\ transactions = EmptyMap
    /\ nextSqlId = 1
    /\ donations = EmptyMap
    /\ requirements = EmptyMap
    /\ matches = EmptyMap
    /\ activityFeed = EmptyMap
    /\ nextPushKey = 1
    /\ mockMatches = [k \in {MockId(1), MockId(2)} |->
                         IF k = MockId(1) THEN "confirmed" ELSE "pending"]
    /\ calls = EmptyBag
    /\ returned = NoCall
    /\ nCalls = 0
    /\ resolved = [creates |-> 0, updates |-> 0]

\* ------------------------------------------------------------------ clock
\* the wall clock when the module is loaded: Date.now() is in ms since 1970,
\* far more than CACHE_DURATION
StartTime == 100000

CACHE_DURATION == 30000

\* the clock advances between two steps by CACHE_DURATION or by 1 ms less
Advances == {CACHE_DURATION - 1, CACHE_DURATION}

Tick(d) ==
    /\ now < StartTime + MaxTicks * CACHE_DURATION
    /\ now' = now + d

\* ------------------------------------------- default dates of a new record
\* a date is a time in ms; NoTime is the empty string '' (falsy)
NoTime == 0
SevenDays == 7 * 24 * 60 * 60 * 1000
GivenTimes == {NoTime, StartTime + SevenDays}

NoRecords == [op |-> "none"]

\* ---------------------------------------------------------- analytics cache
\* an object is known by its identity; null is NoObject
NoObject == [id |-> 0, source |-> "none"]
NotServed ==
    [hit |-> FALSE, value |-> NoObject, startedAt |-> 0, sawCache |-> NoObject,
     sawCacheTime |-> 0, storeCalls |-> 0, peer |-> NoObject, doneAt |-> 0,
     probe |-> "none", failed |-> {}]

\* the module loaded, nothing built, the clock at its start
InitOther ==
    /\ now = StartTime
    /\ built = NoRecords
    /\ analyticsCache = NoObject
    /\ analyticsCacheTime = 0
    /\ nextObject = 1
    /\ analytics = EmptyBag
    /\ served = NotServed
    /\ prev = NotServed
    /\ subs = <<>>
    /\ fetches = EmptyBag
    /\ version = [food_items |-> 0, requests |-> 0]
    /\ unhandled = 0
    /\ translations = <<>>
    /\ listeners = [l \in {"donations", "requirements"} |-> <<>>]
    /\ handles = <<>>

\* the module loaded in a process with a configured Firebase project
Init ==
    /\ InitStores
    /\ env = ConfiguredEnv
    /\ InitOther

\* the module loaded in a process with any configuration
InitConfig ==
    /\ InitStores
    /\ env \in Envs
    /\ InitOther

\* the status field of the record a caller passes to createDonation and to
\* createRequirement: the status of a new record, or one already matched
NewDonationStatuses == {"pending", "matched"}
NewRequirementStatuses == {"active", "matched"}

\* ---------------------------------------------------------- createDonation
\* lines 324-349: build supabaseData (status 'available') and await
\* foodItemService.create
createDonation(status) ==
    /\ CanCall
    /\ Suspend(NewCall("createDonation", status, "available", NoId, NoId,
          "awaitCreate",
          <<Event("sql", "create", <<"food_items", NoId>>, "issued")>>))
    /\ UNCHANGED <<databaseApp, relVars, mirrorVars, nextPushKey, mockMatches>>

\* lines 349-366: foodItemService.create settles; on a row, build
\* firebaseData and await set(donations/<id>)
createDonationCreated(i) ==
    /\ At(i, "createDonation", "awaitCreate")
    /\ \/ /\ LET id == SqlId(nextSqlId)
                 c == [Settle(i, "ok") EXCEPT !.rid = id]
             IN /\ foodItems' = Put(foodItems, id, [status |-> i.sqlStatus])
                /\ nextSqlId' = nextSqlId + 1
                /\ Continue(i, [Issue(c, "mirror", "set", <<"donations", id>>)
                                    EXCEPT !.pc = "awaitSet"])
          /\ UNCHANGED <<requests, transactions>>
       \/ /\ Return(i, createDonationCatch(Settle(i, "norow"),
                               FailedToSave("donation")))
          /\ UNCHANGED relVars
       \/ /\ Return(i, createDonationCatch(Settle(i, "rejected"), SqlError))
          /\ UNCHANGED relVars
    /\ UNCHANGED <<databaseApp, mirrorVars, nextPushKey, mockMatches>>

\* lines 366-372: set(donationsRef) settles; then push(activity_feed) and
\* await set(newActivityRef).  A throw goes to the catch of line 388.
createDonationSynced(i) ==
    /\ At(i, "createDonation", "awaitSet")
    /\ \E r \in MirrorOutcomes :
         IF r = "ok"
         THEN LET c == i
                  key == PushKey(nextPushKey)
                  c1 == Pushed(Settle(c, "ok"), <<"activity_feed", NoId>>)
                  c2 == Issue(c1, "mirror", "set", <<"activity_feed", key>>)
              IN /\ donations' = Put(donations, c.rid,
                        [id |-> c.rid, status |-> c.status,
                         matchedWith |-> NoId, matchedAt |-> FALSE])
                 /\ nextPushKey' = nextPushKey + 1
                 /\ Continue(i, [c2 EXCEPT !.fkey = key, !.pc = "awaitFeed"])
                 /\ UNCHANGED <<requirements, matches, activityFeed>>
         ELSE /\ Return(i, createDonationCatch(Settle(i, "rejected"), MirrorError))
              /\ UNCHANGED <<mirrorVars, nextPushKey>>
    /\ UNCHANGED <<databaseApp, relVars, mockMatches>>

\* lines 372-391: set(newActivityRef) settles; return supabaseResult.id
createDonationLogged(i) ==
    /\ At(i, "createDonation", "awaitFeed")
    /\ \E r \in MirrorOutcomes :
         IF r = "ok"
         THEN LET c == i
              IN /\ activityFeed' = LogActivity(activityFeed, c.fkey,
                                       "donation_created", c.rid)
                 /\ Return(i, Resolve(Settle(c, "ok"), c.rid))
                 /\ UNCHANGED <<donations, requirements, matches>>
         ELSE /\ Return(i, createDonationCatch(Settle(i, "rejected"), MirrorError))
              /\ UNCHANGED mirrorVars
    /\ UNCHANGED <<databaseApp, relVars, nextPushKey, mockMatches>>

\* ------------------------------------------------------- createRequirement
\* lines 534-559: build supabaseData (status 'active') and await
\* requestService.create
createRequirement(status) ==
    /\ CanCall
    /\ Suspend(NewCall("createRequirement", status, "active", NoId, NoId,
          "awaitCreate",
          <<Event("sql", "create", <<"requests", NoId>>, "issued")>>))
    /\ UNCHANGED <<databaseApp, relVars, mirrorVars, nextPushKey, mockMatches>>

\* lines 559-576: requestService.create settles; on a row, build
\* firebaseData and await set(requirements/<id>)
createRequirementCreated(i) ==
    /\ At(i, "createRequirement", "awaitCreate")
    /\ \/ /\ LET id == SqlId(nextSqlId)
                 c == [Settle(i, "ok") EXCEPT !.rid = id]
             IN /\ requests' = Put(requests, id, [status |-> i.sqlStatus])
                /\ nextSqlId' = nextSqlId + 1
                /\ Continue(i, [Issue(c, "mirror", "set", <<"requirements", id>>)
                                    EXCEPT !.pc = "awaitSet"])
          /\ UNCHANGED <<foodItems, transactions>>
       \/ /\ Return(i, createRequirementCatch(Settle(i, "norow"),
                               FailedToSave("requirement")))
          /\ UNCHANGED relVars
       \/ /\ Return(i, createRequirementCatch(Settle(i, "rejected"), SqlError))
          /\ UNCHANGED relVars
    /\ UNCHANGED <<databaseApp, mirrorVars, nextPushKey, mockMatches>>

\* lines 576-582: set(requirementsRef) settles; then push(activity_feed)
\* and await set(newActivityRef).  A throw goes to the catch of line 601.
createRequirementSynced(i) ==
    /\ At(i, "createRequirement", "awaitSet")
    /\ \E r \in MirrorOutcomes :
         IF r = "ok"
         THEN LET c == i
                  key == PushKey(nextPushKey)
                  c1 == Pushed(Settle(c, "ok"), <<"activity_feed", NoId>>)
                  c2 == Issue(c1, "mirror", "set", <<"activity_feed", key>>)
              IN /\ requirements' = Put(requirements, c.rid,
                        [id |-> c.rid, status |-> c.status,
                         matchedWith |-> NoId, matchedAt |-> FALSE])
                 /\ nextPushKey' = nextPushKey + 1
                 /\ Continue(i, [c2 EXCEPT !.fkey = key, !.pc = "awaitFeed"])
                 /\ UNCHANGED <<donations, matches, activityFeed>>
         ELSE /\ Return(i, createRequirementCatch(Settle(i, "rejected"), MirrorError))
              /\ UNCHANGED <<mirrorVars, nextPushKey>>
    /\ UNCHANGED <<databaseApp, relVars, mockMatches>>

\* lines 582-604: set(newActivityRef) settles; return supabaseResult.id
createRequirementLogged(i) ==
    /\ At(i, "createRequirement", "awaitFeed")
    /\ \E r \in MirrorOutcomes :
         IF r = "ok"
         THEN LET c == i
              IN /\ activityFeed' = LogActivity(activityFeed, c.fkey,
                                       "requirement_created", c.rid)
                 /\ Return(i, Resolve(Settle(c, "ok"), c.rid))
                 /\ UNCHANGED <<donations, requirements, matches>>
         ELSE /\ Return(i, createRequirementCatch(Settle(i, "rejected"), MirrorError))
              /\ UNCHANGED mirrorVars
    /\ UNCHANGED <<databaseApp, relVars, nextPushKey, mockMatches>>

\* ------------------------------------------------------------- createMatch
\* transactionId || newMatchRef.key
OrKey(transactionId, key) == IF transactionId # NoId THEN transactionId ELSE key

\* the path createMatch writes the match record to: newMatchRef = push(matchesRef)
MatchRecordKey(transactionId, key) == key

\* lines 671-691: build transactionData and await transactionService.create
createMatch(status) ==
    /\ CanCall
    /\ Suspend(NewCall("createMatch", status, MatchStatusToSupabase(status),
          NoId, NoId, "awaitCreate",
          <<Event("sql", "create", <<"transactions", NoId>>, "issued")>>))
    /\ UNCHANGED <<databaseApp, relVars, mirrorVars, nextPushKey, mockMatches>>

\* lines 691-706: transactionService.create settles; transactionId is the
\* row's id, or '' when there is no row; push(matchesRef) and await
\* set(newMatchRef)
createMatchCreated(i) ==
    /\ At(i, "createMatch", "awaitCreate")
    /\ \/ /\ LET id == SqlId(nextSqlId)
                 key == PushKey(nextPushKey)
                 c == [Settle(i, "ok") EXCEPT !.rid = id, !.mkey = key]
                 c1 == Pushed(c, <<"matches", NoId>>)
             IN /\ transactions' = Put(transactions, id,
                                       [status |-> i.sqlStatus])
                /\ nextSqlId' = nextSqlId + 1
                /\ Continue(i, [Issue(c1, "mirror", "set",
                                      <<"matches", MatchRecordKey(id, key)>>)
                                    EXCEPT !.pc = "awaitSet"])
          /\ nextPushKey' = nextPushKey + 1
          /\ UNCHANGED <<foodItems, requests>>
       \/ /\ LET key == PushKey(nextPushKey)
                 c == [Settle(i, "norow") EXCEPT !.mkey = key]
                 c1 == Pushed(c, <<"matches", NoId>>)
             IN Continue(i, [Issue(c1, "mirror", "set",
                                   <<"matches", MatchRecordKey(NoId, key)>>)
                                EXCEPT !.pc = "awaitSet"])
          /\ nextPushKey' = nextPushKey + 1
          /\ UNCHANGED relVars
       \/ /\ Return(i, createMatchCatch(Settle(i, "rejected"), SqlError))
          /\ UNCHANGED <<relVars, nextPushKey>>
    /\ UNCHANGED <<databaseApp, mirrorVars, mockMatches>>

\* lines 706-712: set(newMatchRef, matchData) settles; then
\* push(activity_feed) and await set(newActivityRef)
createMatchSynced(i) ==
    /\ At(i, "createMatch", "awaitSet")
    /\ \E r \in MirrorOutcomes :
         IF r = "ok"
         THEN LET c == i
                  key == PushKey(nextPushKey)
                  c1 == Pushed(Settle(c, "ok"), <<"activity_feed", NoId>>)
                  c2 == Issue(c1, "mirror", "set", <<"activity_feed", key>>)
              IN /\ matches' = Put(matches, MatchRecordKey(c.rid, c.mkey),
                        [id |-> OrKey(c.rid, c.mkey), status |-> c.status])
                 /\ nextPushKey' = nextPushKey + 1
                 /\ Continue(i, [c2 EXCEPT !.fkey = key, !.pc = "awaitFeed"])
                 /\ UNCHANGED <<donations, requirements, activityFeed>>
         ELSE /\ Return(i, createMatchCatch(Settle(i, "rejected"), MirrorError))
              /\ UNCHANGED <<mirrorVars, nextPushKey>>
    /\ UNCHANGED <<databaseApp, relVars, mockMatches>>

\* lines 712-731: set(newActivityRef) settles; return
\* transactionId || newMatchRef.key
createMatchLogged(i) ==
    /\ At(i, "createMatch", "awaitFeed")
    /\ \E r \in MirrorOutcomes :
         IF r = "ok"
         THEN LET c == i
              IN /\ activityFeed' = LogActivity(activityFeed, c.fkey,
                        "match_created", OrKey(c.rid, c.mkey))
                 /\ Return(i, Resolve(Settle(c, "ok"), OrKey(c.rid, c.mkey)))
                 /\ UNCHANGED <<donations, requirements, matches>>
         ELSE /\ Return(i, createMatchCatch(Settle(i, "rejected"), MirrorError))
              /\ UNCHANGED mirrorVars
    /\ UNCHANGED <<databaseApp, relVars, nextPushKey, mockMatches>>

\* ---------------------------------------------------- status-update calls
\* the matched-with references a caller passes: none, or some record's id
MatchedWithArgs == {NoId, MockId(1)}

\* mutant: matchedWith and matchedAt are part of every update
MergeMatchedAlways(coll, key, status, matchedWith) ==
    LET old == IF key \in DOMAIN coll THEN coll[key]
               ELSE [id |-> NoId, status |-> "none",
                     matchedWith |-> NoId, matchedAt |-> FALSE]
    IN Put(coll, key, [old EXCEPT !.status = status,
                                  !.matchedWith = matchedWith,
                                  !.matchedAt = TRUE])

\* update(ref, values) of the real-time store: merges the given fields into
\* the record at the path, and makes the record when the path is empty
Merge(coll, key, status, matchedWith) ==
    LET old == IF key \in DOMAIN coll THEN coll[key]
               ELSE [id |-> NoId, status |-> "none",
                     matchedWith |-> NoId, matchedAt |-> FALSE]
        new == IF matchedWith # NoId
               THEN [old EXCEPT !.status = status,
                                !.matchedWith = matchedWith,
                                !.matchedAt = TRUE]
               ELSE [old EXCEPT !.status = status]
    IN Put(coll, key, new)

\* updateStatus(id, status) of a relational table: sets the row's status
SetStatus(table, id, status) ==
    IF id \in DOMAIN table THEN [table EXCEPT ![id].status = status] ELSE table

\* update(matches/<key>, {status, updatedAt})
MergeMatch(coll, key, status) ==
    LET old == IF key \in DOMAIN coll THEN coll[key]
               ELSE [id |-> NoId, status |-> "none"]
    IN Put(coll, key, [old EXCEPT !.status = status])

\* mockMatches.find(m => m.id === matchId), then match.status = status
SetMock(mock, matchId, status) ==
    IF matchId \in DOMAIN mock THEN [mock EXCEPT ![matchId] = status] ELSE mock

\* lines 394-406: map the status and await foodItemService.updateStatus
updateDonationStatus(donationId, status, matchedWith) ==
    /\ CanCall
    /\ Suspend(NewCall("updateDonationStatus", status,
          DonationStatusToSupabase(status), donationId, matchedWith,
          "awaitUpdateStatus",
          <<Event("sql", "updateStatus", <<"food_items", donationId>>,
                  "issued")>>))
    /\ UNCHANGED <<databaseApp, relVars, mirrorVars, nextPushKey, mockMatches>>

\* lines 406-422: foodItemService.updateStatus settles; a rejection goes to
\* the catch of line 427, else await update(donations/<id>)
updateDonationStatusUpdated(i) ==
    /\ At(i, "updateDonationStatus", "awaitUpdateStatus")
    /\ \/ /\ LET c == i
             IN /\ foodItems' = SetStatus(foodItems, c.target, c.sqlStatus)
                /\ Continue(i, [Issue(Settle(c, "ok"), "mirror", "update",
                                      <<"donations", c.target>>)
                                    EXCEPT !.pc = "awaitUpdate"])
          /\ UNCHANGED <<requests, transactions, nextSqlId>>
       \/ /\ Return(i, updateDonationStatusCatch(Settle(i, "rejected"), SqlError))
          /\ UNCHANGED relVars
    /\ UNCHANGED <<databaseApp, mirrorVars, nextPushKey, mockMatches>>

\* lines 422-426: update(donationRef) settles; a throw is caught and logged
updateDonationStatusSynced(i) ==
    /\ At(i, "updateDonationStatus", "awaitUpdate")
    /\ \E r \in MirrorOutcomes :
         LET c == i
         IN IF r = "ok"
            THEN /\ donations' = Merge(donations, c.target, c.status,
                                       c.matchedWith)
                 /\ Return(i, Resolve(Settle(c, "ok"), NoId))
                 /\ UNCHANGED <<requirements, matches, activityFeed>>
            ELSE /\ Return(i, updateDonationStatusSyncFailed(
                                  Settle(c, "rejected"), MirrorError))
                 /\ UNCHANGED mirrorVars
    /\ UNCHANGED <<databaseApp, relVars, nextPushKey, mockMatches>>

\* lines 433-444: map the status and await requestService.updateStatus
updateRequirementStatus(requirementId, status, matchedWith) ==
    /\ CanCall
    /\ Suspend(NewCall("updateRequirementStatus", status,
          RequirementStatusToSupabase(status), requirementId, matchedWith,
          "awaitUpdateStatus",
          <<Event("sql", "updateStatus", <<"requests", requirementId>>,
                  "issued")>>))
    /\ UNCHANGED <<databaseApp, relVars, mirrorVars, nextPushKey, mockMatches>>

\* lines 444-460: requestService.updateStatus settles; a rejection goes to
\* the catch of line 465, else await update(requirements/<id>)
updateRequirementStatusUpdated(i) ==
    /\ At(i, "updateRequirementStatus", "awaitUpdateStatus")
    /\ \/ /\ LET c == i
             IN /\ requests' = SetStatus(requests, c.target, c.sqlStatus)
                /\ Continue(i, [Issue(Settle(c, "ok"), "mirror", "update",
                                      <<"requirements", c.target>>)
                                    EXCEPT !.pc = "awaitUpdate"])
          /\ UNCHANGED <<foodItems, transactions, nextSqlId>>
       \/ /\ Return(i, updateRequirementStatusCatch(Settle(i, "rejected"), SqlError))
          /\ UNCHANGED relVars
    /\ UNCHANGED <<databaseApp, mirrorVars, nextPushKey, mockMatches>>

\* lines 460-464: update(requirementRef) settles; a throw is caught and logged
updateRequirementStatusSynced(i) ==
    /\ At(i, "updateRequirementStatus", "awaitUpdate")
    /\ \E r \in MirrorOutcomes :
         LET c == i
         IN IF r = "ok"
            THEN /\ requirements' = Merge(requirements, c.target, c.status,
                                          c.matchedWith)
                 /\ Return(i, Resolve(Settle(c, "ok"), NoId))
                 /\ UNCHANGED <<donations, matches, activityFeed>>
            ELSE /\ Return(i, updateRequirementStatusSyncFailed(
                                  Settle(c, "rejected"), MirrorError))
                 /\ UNCHANGED mirrorVars
    /\ UNCHANGED <<databaseApp, relVars, nextPushKey, mockMatches>>

\* the store calls updateMatchStatus makes before it returns, when the
\* real-time database is initialised: update(matches/<matchId>) only
updateMatchStatusWrites(matchId) ==
    <<Event("mirror", "update", <<"matches", matchId>>, "issued")>>

\* lines 734-746: without a database, set the status of the mock match with
\* that id (if any) and return; else await update(matches/<matchId>)
updateMatchStatus(matchId, status) ==
    /\ nCalls < MaxCalls
    /\ \/ /\ ~databaseApp
          /\ mockMatches' = SetMock(mockMatches, matchId, status)
          /\ returned' = Resolve(NewCall("updateMatchStatus", status, "none",
                                         matchId, NoId, "done", <<>>), NoId)
          /\ resolved' = Count(returned')
          /\ nCalls' = nCalls + 1
          /\ UNCHANGED <<calls, otherVars>>
       \/ /\ databaseApp
          /\ BagCardinality(calls) < MaxInFlight
          /\ Suspend(NewCall("updateMatchStatus", status, "none", matchId,
                NoId, "awaitUpdate", updateMatchStatusWrites(matchId)))
          /\ UNCHANGED mockMatches
    /\ UNCHANGED <<databaseApp, relVars, mirrorVars, nextPushKey>>

\* lines 746-750: update(matchRef) settles; a throw rejects the call
updateMatchStatusSynced(i) ==
    /\ At(i, "updateMatchStatus", "awaitUpdate")
    /\ \E r \in MirrorOutcomes :
         LET c == i
         IN IF r = "ok"
            THEN /\ matches' = MergeMatch(matches, c.target, c.status)
                 /\ Return(i, Resolve(Settle(c, "ok"), NoId))
                 /\ UNCHANGED <<donations, requirements, activityFeed>>
            ELSE /\ Return(i, Reject(Settle(c, "rejected"), MirrorError))
                 /\ UNCHANGED mirrorVars
    /\ UNCHANGED <<databaseApp, relVars, nextPushKey, mockMatches>>

\* the ids a caller passes: those of the rows and mirror records made so
\* far, and for a match also the id '1' of the first mock match
DonationIds == DOMAIN foodItems \cup DOMAIN donations
RequirementIds == DOMAIN requests \cup DOMAIN requirements
MatchIds == DOMAIN transactions \cup DOMAIN matches \cup {MockId(1)}

Next ==
    \/ \E s \in NewDonationStatuses : createDonation(s)
    \/ \E i \in DOMAIN calls : createDonationCreated(i)
    \/ \E i \in DOMAIN calls : createDonationSynced(i)
    \/ \E i \in DOMAIN calls : createDonationLogged(i)
    \/ \E s \in NewRequirementStatuses : createRequirement(s)
    \/ \E i \in DOMAIN calls : createRequirementCreated(i)
    \/ \E i \in DOMAIN calls : createRequirementSynced(i)
    \/ \E i \in DOMAIN calls : createRequirementLogged(i)
    \/ \E s \in MatchStatuses : createMatch(s)
    \/ \E i \in DOMAIN calls : createMatchCreated(i)
    \/ \E i \in DOMAIN calls : createMatchSynced(i)
    \/ \E i \in DOMAIN calls : createMatchLogged(i)
    \/ \E id \in DonationIds, s \in DonationStatuses, m \in MatchedWithArgs :
          updateDonationStatus(id, s, m)
    \/ \E i \in DOMAIN calls : updateDonationStatusUpdated(i)
    \/ \E i \in DOMAIN calls : updateDonationStatusSynced(i)
    \/ \E id \in RequirementIds, s \in RequirementStatuses,
          m \in MatchedWithArgs : updateRequirementStatus(id, s, m)
    \/ \E i \in DOMAIN calls : updateRequirementStatusUpdated(i)
    \/ \E i \in DOMAIN calls : updateRequirementStatusSynced(i)
    \/ \E id \in MatchIds, s \in MatchStatuses : updateMatchStatus(id, s)
    \/ \E i \in DOMAIN calls : updateMatchStatusSynced(i)

Spec == Init /\ [][Next]_vars

\* the id a caller passes to a status update: that of a record of an
\* earlier session, which the stores of this one need not hold
GivenIds == {SqlId(1)}

\* the status updates of donations and requirements alone
NextStatusUpdates ==
    \/ \E id \in GivenIds, s \in DonationStatuses, m \in MatchedWithArgs :
          updateDonationStatus(id, s, m)
    \/ \E i \in DOMAIN calls : updateDonationStatusUpdated(i)
    \/ \E i \in DOMAIN calls : updateDonationStatusSynced(i)
    \/ \E id \in GivenIds, s \in RequirementStatuses,
          m \in MatchedWithArgs : updateRequirementStatus(id, s, m)
    \/ \E i \in DOMAIN calls : updateRequirementStatusUpdated(i)
    \/ \E i \in DOMAIN calls : updateRequirementStatusSynced(i)

SpecStatusUpdates == Init /\ [][NextStatusUpdates]_vars

\* ------------------------------------ the dates the create functions store
\* createDonation, lines 331-332: pickupTime and expiryDate of supabaseData
DonationRowDates(donation, t) ==
    [pickup_time |-> IF donation.pickupTime # NoTime
                     THEN donation.pickupTime ELSE t,
     expiry_date |-> IF donation.expiryDate # NoTime
                     THEN donation.expiryDate ELSE t + SevenDays]

\* createDonation, lines 358-363: firebaseData = {...donation, id, createdAt,
\* updatedAt} keeps the dates of the argument
DonationMirrorDates(donation) ==
    [pickupTime |-> donation.pickupTime, expiryDate |-> donation.expiryDate]

\* createRequirement, line 541: neededBy of supabaseData
RequirementRowDates(requirement, t) ==
    [needed_by |-> IF requirement.neededBy # NoTime
                   THEN requirement.neededBy ELSE t + SevenDays]

\* createRequirement, lines 568-573: firebaseData = {...requirement, ...}
RequirementMirrorDates(requirement) == [neededBy |-> requirement.neededBy]

\* createDonation, lines 331-363, when both stores accept the write: the
\* dates of the row and of the mirror record it stores for `donation`
createDonationDates(donation) ==
    /\ built' = [op |-> "createDonation", arg |-> donation, at |-> now,
                 row |-> DonationRowDates(donation, now),
                 mirror |-> DonationMirrorDates(donation)]
    /\ UNCHANGED now

\* createRequirement, lines 541-573, when both stores accept the write
createRequirementDates(requirement) ==
    /\ built' = [op |-> "createRequirement", arg |-> requirement, at |-> now,
                 row |-> RequirementRowDates(requirement, now),
                 mirror |-> RequirementMirrorDates(requirement)]
    /\ UNCHANGED now

DonationArgs == [pickupTime : GivenTimes, expiryDate : GivenTimes]
RequirementArgs == [neededBy : GivenTimes]

datesFrame == <<databaseApp, relVars, mirrorVars, nextPushKey, mockMatches,
                calls, returned, nCalls, resolved, env, cacheVars, subsVars,
                miscVars>>

NextDates ==
    \/ \E d \in Advances : Tick(d) /\ UNCHANGED <<built, datesFrame>>
    \/ \E a \in DonationArgs : createDonationDates(a) /\ UNCHANGED datesFrame
    \/ \E a \in RequirementArgs :
          createRequirementDates(a) /\ UNCHANGED datesFrame

SpecDates == Init /\ [][NextDates]_vars

\* -------------------------------------------------------- getAnalyticsData
\* mutant: the cache is still valid when exactly CACHE_DURATION has passed
CacheValidInclusive(cache, cacheTime, t) ==
    cache # NoObject /\ t - cacheTime <= CACHE_DURATION

\* line 907: analyticsCache && Date.now() - analyticsCacheTime < CACHE_DURATION
CacheValid(cache, cacheTime, t) ==
    cache # NoObject /\ t - cacheTime < CACHE_DURATION

\* a call: when it started, the cache it found, the store calls it issued,
\* and the object a call that settled while it was suspended resolved with
AnalyticsCall(pc) ==
    [pc |-> pc, startedAt |-> now, sawCache |-> analyticsCache,
     sawCacheTime |-> analyticsCacheTime, storeCalls |-> 1, peer |-> NoObject,
     probe |-> "none",   \* what getDatabaseAvailability() answered
     failed |-> {}]      \* the reads of Promise.all that rejected

\* what is remembered of the call that settled before the last one
Earlier(call) == [call EXCEPT !.probe = "none", !.failed = {}]

Served(c, hit, value) ==
    [hit |-> hit, value |-> value, startedAt |-> c.startedAt,
     sawCache |-> c.sawCache, sawCacheTime |-> c.sawCacheTime,
     storeCalls |-> c.storeCalls, peer |-> c.peer, doneAt |-> now,
     probe |-> c.probe, failed |-> c.failed]

\* the suspended calls learn that a call resolved with `value`
Overlapped(bag, value) ==
    LET S == DOMAIN bag
        T == {[c EXCEPT !.peer = value] : c \in S}
    IN [t \in T |-> LET P == {c \in S : [c EXCEPT !.peer = value] = t}
                         Sum[Q \in SUBSET P] ==
                             IF Q = {} THEN 0
                             ELSE LET q == CHOOSE x \in Q : TRUE
                                  IN bag[q] + Sum[Q \ {q}]
                     IN Sum[P]]

\* mutant: the refresh returns its data and leaves the cache as it was
RefreshedWithoutCaching(i, c, source) ==
    LET data == [id |-> nextObject, source |-> source]
    IN /\ nextObject' = nextObject + 1
       /\ analytics' = Overlapped(Remove(analytics, i), data)
       /\ served' = Served(c, FALSE, data)
       /\ prev' = Earlier(served)
       /\ UNCHANGED <<analyticsCache, analyticsCacheTime>>

\* const data = {...}: a new object; analyticsCache = data;
\* analyticsCacheTime = Date.now(); return data.  Call i settles as c.
Refreshed(i, c, source) ==
    LET data == [id |-> nextObject, source |-> source]
    IN /\ nextObject' = nextObject + 1
       /\ analyticsCache' = data
       /\ analyticsCacheTime' = now
       /\ analytics' = Overlapped(Remove(analytics, i), data)
       /\ served' = Served(c, FALSE, data)
       /\ prev' = Earlier(served)

analyticsFrame == <<databaseApp, relVars, mirrorVars, nextPushKey,
                    mockMatches, calls, returned, resolved, env, built,
                    subsVars, miscVars>>

\* lines 905-911: return the cached object if it is still valid, else await
\* getDatabaseAvailability()
getAnalyticsData ==
    /\ nCalls < MaxAnalyticsCalls
    /\ nCalls' = nCalls + 1
    /\ IF CacheValid(analyticsCache, analyticsCacheTime, now)
       THEN /\ served' = Served([AnalyticsCall("done") EXCEPT !.storeCalls = 0],
                                TRUE, analyticsCache)
            /\ prev' = Earlier(served)
            /\ analytics' = Overlapped(analytics, analyticsCache)
            /\ UNCHANGED <<analyticsCache, analyticsCacheTime, nextObject>>
       ELSE /\ analytics' = analytics (+) SetToBag({AnalyticsCall("awaitProbe")})
            /\ UNCHANGED <<analyticsCache, analyticsCacheTime, nextObject,
                           served, prev>>
    /\ UNCHANGED <<now, analyticsFrame>>

\* lines 299-310: get('.info/connected') answers whether the node exists;
\* without a database ref() throws and the probe answers false
ProbeOutcomes == IF databaseApp THEN {TRUE, FALSE} ELSE {FALSE}

\* lines 911-928: the probe settles; when it is false build the placeholder
\* data, cache and return it; else await Promise.all of the three get()
getAnalyticsDataProbed(i) ==
    /\ i \in DOMAIN analytics /\ i.pc = "awaitProbe"
    /\ \E isAvailable \in ProbeOutcomes :
         IF ~isAvailable
         THEN Refreshed(i, [i EXCEPT !.probe = "unavailable"], "mock")
         ELSE /\ analytics' = Remove(analytics, i) (+)
                     SetToBag({[i EXCEPT !.pc = "awaitGet",
                                         !.probe = "available",
                                         !.storeCalls = @ + 3]})
              /\ UNCHANGED <<analyticsCache, analyticsCacheTime, nextObject,
                             served, prev>>
    /\ UNCHANGED <<now, nCalls, analyticsFrame>>

\* lines 925-927: the three reads Promise.all waits for
AnalyticsReads == {"donations", "requirements", "matches"}

\* mutant: the data is built from the reads that succeeded
ReadSourceAnySettled(failed) ==
    IF failed # AnalyticsReads THEN "mirror" ELSE "mock"

\* lines 924-960: Promise.all rejects when one of the reads rejects, and the
\* catch builds the placeholder data
ReadSource(failed) == IF failed = {} THEN "mirror" ELSE "mock"

\* lines 924-960: the three reads settle; build the data from the snapshots,
\* or the placeholder data in the catch, cache and return it
getAnalyticsDataRead(i) ==
    /\ i \in DOMAIN analytics /\ i.pc = "awaitGet"
    /\ \E failed \in SUBSET AnalyticsReads :
         Refreshed(i, [i EXCEPT !.failed = failed], ReadSource(failed))
    /\ UNCHANGED <<now, nCalls, analyticsFrame>>

NextAnalytics ==
    \/ \E d \in Advances : Tick(d) /\ UNCHANGED <<nCalls, cacheVars, analyticsFrame>>
    \/ getAnalyticsData
    \/ \E i \in DOMAIN analytics : getAnalyticsDataProbed(i)
    \/ \E i \in DOMAIN analytics : getAnalyticsDataRead(i)

SpecAnalytics == Init /\ [][NextAnalytics]_vars

\* ------------------------------------------------------------ subscriptions
\* the four subscription entry points
OwnerSubscriptions == {"getDonationsByDonor", "getRequirementsByReceiver"}
ListenSubscriptions == {"listenToAvailableDonations",
                        "listenToActiveRequirements"}

\* .on('postgres_changes', {table: ...}): the table an entry point watches
TableName(ep) ==
    IF ep \in {"getDonationsByDonor", "listenToAvailableDonations"}
    THEN "food_items" ELSE "requests"

Rows(table) == IF table = "food_items" THEN foodItems ELSE requests

\* supabase.channel(name): the caller passes one donorId / receiverId, so an
\* entry point always names the same channel
ChannelName(ep) ==
    CASE ep = "getDonationsByDonor" -> "donations-<donorId>"
      [] ep = "getRequirementsByReceiver" -> "requirements-<receiverId>"
      [] ep = "listenToAvailableDonations" -> "available-donations"
      [] OTHER -> "active-requirements"

\* the filter of the query: .eq('status', 'available') and .eq('status',
\* 'active') for the listen* entry points; getByDonor / getByNgo select the
\* rows of the owner, and every row of the model is a row of that owner
Selects(ep, row) ==
    CASE ep = "listenToAvailableDonations" -> row.status = "available"
      [] ep = "listenToActiveRequirements" -> row.status = "active"
      [] OTHER -> TRUE

\* .order('created_at', {ascending: false}): the store assigns ids in the
\* order of creation
RECURSIVE Descending(_)
Descending(S) ==
    IF S = {} THEN <<>>
    ELSE LET m == CHOOSE x \in S : \A y \in S : y[2] <= x[2]
         IN <<m>> \o Descending(S \ {m})

\* the rows the query of ep selects now, as the store returns them
QueryRows(ep) ==
    LET t == Rows(TableName(ep))
        ids == Descending({id \in DOMAIN t : Selects(ep, t[id])})
    IN [j \in 1..Len(ids) |-> [id |-> ids[j], status |-> t[ids[j]].status]]

\* convertSupabaseToFoodDonation / convertSupabaseToRequirement of ep
ConvertRow(ep, item) ==
    [id |-> item.id,
     status |-> CASE TableName(ep) = "food_items" ->
                         DonationStatusFromSupabase(item.status)
                  [] ep = "getRequirementsByReceiver" ->
                         RequirementStatusFromSupabase(item.status)
                  [] OTHER -> RequirementStatusFromSupabaseListen(item.status)]

\* data.map(convert): every row of the answer, in its order
ConvertRows(ep, rows) == [j \in DOMAIN rows |-> ConvertRow(ep, rows[j])]

\* a subscription: what the subscribe call has done so far and, as history,
\* what its callback has been given
NewSubscription(ep, pc, registered, handed) ==
    [ep |-> ep, pc |-> pc,
     registered |-> registered,  \* the channel holds the change listener
     handed |-> handed,          \* the caller holds the unsubscribe function
     noop |-> FALSE,             \* ... and it is () => {}
     deregistrations |-> 0,      \* subscription.unsubscribe() calls issued
     first |-> "none",           \* what caused the first callback
     last |-> <<>>,              \* the argument of the last callback
     lastOk |-> FALSE,           \* ... came from an answer, not an error
     lastVersion |-> 0,          \* ... read at this version of the table
     changeCallbacks |-> 0,      \* callbacks made by the change handler
     regVersion |-> 0,           \* version of the table at registration
     seen |-> 0,                 \* version of the last change event handled
     dropped |-> FALSE]          \* a query failed and no callback([]) was made

NewFetch(n, cause) ==
    [sub |-> n, cause |-> cause, state |-> "issued", rows |-> <<>>,
     version |-> 0]

\* callback(result)
Callback(s, cause, result, ok, v) ==
    [s EXCEPT !.first = IF @ = "none" THEN cause ELSE @,
              !.last = result, !.lastOk = ok, !.lastVersion = v,
              !.changeCallbacks = IF cause = "change" THEN @ + 1 ELSE @]

\* callback([]) in an error branch
CallbackEmpty(s, cause) == Callback(s, cause, <<>>, FALSE, 0)

\* an error branch that makes no callback
NoCallback(s) == [s EXCEPT !.dropped = TRUE]

\* .channel(name).on(...).subscribe(): the listener is registered
Registered(s) ==
    [s EXCEPT !.pc = "live", !.registered = TRUE, !.handed = TRUE,
              !.regVersion = version[TableName(s.ep)]]

\* the catch of getDonationsByDonor / getRequirementsByReceiver:
\* return () => {}
SetupFailed(s) == [s EXCEPT !.pc = "failed", !.handed = TRUE, !.noop = TRUE]

\* the channel setup succeeds, or throws
SetupOutcomes == {"ok", "throw"}

subsFrame == <<databaseApp, transactions, mirrorVars, nextPushKey,
               mockMatches, calls, returned, resolved, env, now, built,
               cacheVars, miscVars>>

\* getDonationsByDonor / getRequirementsByReceiver, lines 471-476, 607-612:
\* await the query of the owner's rows
subscribeOwner(ep) ==
    /\ nCalls < MaxSubscriptionCalls
    /\ nCalls' = nCalls + 1
    /\ subs' = Append(subs, NewSubscription(ep, "awaitInitial", FALSE, FALSE))
    /\ fetches' = fetches (+) SetToBag({NewFetch(Len(subs) + 1, "initial")})
    /\ UNCHANGED <<version, unhandled, relVars, subsFrame>>

\* listenToAvailableDonations / listenToActiveRequirements, lines 756-826,
\* 828-898: fetchAndCallback() starts the query and is not awaited; the
\* channel is set up and the unsubscribe function returned in the same
\* synchronous run.  A throw of the setup goes to the caller.
subscribeListen(ep) ==
    /\ nCalls < MaxSubscriptionCalls
    /\ nCalls' = nCalls + 1
    /\ \E r \in SetupOutcomes :
         subs' = Append(subs,
                   IF r = "ok"
                   THEN Registered(NewSubscription(ep, "live", TRUE, TRUE))
                   ELSE NewSubscription(ep, "threw", FALSE, FALSE))
    /\ fetches' = fetches (+) SetToBag({NewFetch(Len(subs) + 1, "initial")})
    /\ UNCHANGED <<version, unhandled, relVars, subsFrame>>

\* the relational store answers a query with the rows it selects now
queryAnswered(f) ==
    /\ f \in DOMAIN fetches /\ f.state = "issued"
    /\ LET ep == subs[f.sub].ep
           g == [f EXCEPT !.state = "answered", !.rows = QueryRows(ep),
                          !.version = version[TableName(ep)]]
       IN fetches' = Remove(fetches, f) (+) SetToBag({g})
    /\ UNCHANGED <<subs, version, unhandled, nCalls, relVars, subsFrame>>

\* the awaited query settles: with the answer of the store, or, when none
\* came, with an error
Settles(f, ok) == f \in DOMAIN fetches /\ ok = (f.state = "answered")

\* getDonationsByDonor / getRequirementsByReceiver, lines 476-530, 612-667:
\* the awaited query settles in the subscribe call (callback, then the
\* channel setup; a rejection or a throw goes to the catch), or in the change
\* handler, which has no catch
ownerQuerySettled(f) ==
    /\ \E ok \in BOOLEAN : Settles(f, ok)
    /\ subs[f.sub].ep \in OwnerSubscriptions
    /\ fetches' = Remove(fetches, f)
    /\ LET s == subs[f.sub]
           ok == f.state = "answered"
           t == Callback(s, f.cause, ConvertRows(s.ep, f.rows), TRUE, f.version)
       IN CASE f.cause = "initial" /\ ok ->
                 /\ \E r \in SetupOutcomes :
                      subs' = [subs EXCEPT ![f.sub] =
                                 IF r = "ok" THEN Registered(t)
                                 ELSE SetupFailed(t)]
                 /\ UNCHANGED unhandled
            [] f.cause = "initial" /\ ~ok ->
                 /\ subs' = [subs EXCEPT ![f.sub] = SetupFailed(NoCallback(s))]
                 /\ UNCHANGED unhandled
            [] f.cause = "change" /\ ok ->
                 /\ subs' = [subs EXCEPT ![f.sub] = t]
                 /\ UNCHANGED unhandled
            [] OTHER ->
                 /\ subs' = [subs EXCEPT ![f.sub] = NoCallback(s)]
                 /\ unhandled' = unhandled + 1
    /\ UNCHANGED <<version, nCalls, relVars, subsFrame>>

\* fetchAndCallback, lines 784-805, 856-877: the awaited query settles;
\* callback(rows converted), or callback([]) on an error or a throw
listenQuerySettled(f) ==
    /\ \E ok \in BOOLEAN : Settles(f, ok)
    /\ subs[f.sub].ep \in ListenSubscriptions
    /\ fetches' = Remove(fetches, f)
    /\ LET s == subs[f.sub]
       IN subs' = [subs EXCEPT ![f.sub] =
                     IF f.state = "answered"
                     THEN Callback(s, f.cause, ConvertRows(s.ep, f.rows),
                                   TRUE, f.version)
                     ELSE CallbackEmpty(s, f.cause)]
    /\ UNCHANGED <<version, unhandled, nCalls, relVars, subsFrame>>

\* mutant: unsubscribing removes every listener of the channel name
DeregisterChannel(ss, n) ==
    [k \in DOMAIN ss |->
        IF ChannelName(ss[k].ep) = ChannelName(ss[n].ep)
        THEN [ss[k] EXCEPT !.registered = FALSE,
                           !.deregistrations =
                               IF k = n THEN @ + 1 ELSE @]
        ELSE ss[k]]

\* subscription.unsubscribe() on the handle subscription n holds
Deregister(ss, n) ==
    [ss EXCEPT ![n].registered = FALSE, ![n].deregistrations = @ + 1]

\* the caller calls the function the subscribe call returned: lines 523-525,
\* 659-661, 823-825, 895-897 () => { subscription.unsubscribe(); }, or the
\* () => {} of the catch
unsubscribe(n) ==
    /\ n \in DOMAIN subs
    /\ subs[n].handed
    /\ nCalls < MaxSubscriptionCalls
    /\ nCalls' = nCalls + 1
    /\ subs' = IF subs[n].noop THEN subs ELSE Deregister(subs, n)
    /\ UNCHANGED <<fetches, version, unhandled, relVars, subsFrame>>

\* the change event of `table` reaches every listener registered for it:
\* the handler of each starts a query of its own
Notified(ss, table) ==
    [k \in DOMAIN ss |->
        IF ss[k].registered /\ TableName(ss[k].ep) = table
        THEN [ss[k] EXCEPT !.seen = version[table] + 1]
        ELSE ss[k]]

Refetches(table) ==
    LET S == {k \in DOMAIN subs :
                 subs[k].registered /\ TableName(subs[k].ep) = table}
    IN [f \in {NewFetch(k, "change") : k \in S} |-> 1]

Changed(table) ==
    /\ version.food_items + version.requests < MaxChanges
    /\ version' = [version EXCEPT ![table] = @ + 1]
    /\ subs' = Notified(subs, table)
    /\ fetches' = fetches (+) Refetches(table)
    /\ UNCHANGED <<unhandled, nCalls, transactions, subsFrame>>

\* the statuses of the rows other clients insert: one the listen* queries
\* select and one they do not
InsertedStatuses(table) ==
    IF table = "food_items" THEN {"available", "reserved"}
    ELSE {"active", "matched"}

\* some client of the relational store inserts a row
rowInserted(table, status) ==
    /\ Changed(table)
    /\ nextSqlId' = nextSqlId + 1
    /\ IF table = "food_items"
       THEN /\ foodItems' = Put(foodItems, SqlId(nextSqlId),
                                [status |-> status])
            /\ UNCHANGED requests
       ELSE /\ requests' = Put(requests, SqlId(nextSqlId),
                               [status |-> status])
            /\ UNCHANGED foodItems

Tables == {"food_items", "requests"}

NextSubscriptions ==
    \/ \E ep \in OwnerSubscriptions : subscribeOwner(ep)
    \/ \E ep \in ListenSubscriptions : subscribeListen(ep)
    \/ \E f \in DOMAIN fetches : queryAnswered(f)
    \/ \E f \in DOMAIN fetches : ownerQuerySettled(f)
    \/ \E f \in DOMAIN fetches : listenQuerySettled(f)
    \/ \E n \in DOMAIN subs : unsubscribe(n)
    \/ \E t \in Tables : \E st \in InsertedStatuses(t) : rowInserted(t, st)

\* the subscriptions query and watch the relational store alone
InitSubscriptions == Init /\ databaseApp

SpecSubscriptions == InitSubscriptions /\ [][NextSubscriptions]_vars

\* no query and no channel setup has failed
NoFailure ==
    /\ unhandled = 0
    /\ \A n \in DOMAIN subs :
          /\ subs[n].pc \notin {"failed", "threw"}
          /\ ~subs[n].dropped
          /\ subs[n].first # "none" => subs[n].lastOk

\* at most two subscriptions were made, both through the same entry point,
\* and the other table has not changed
SameFilter ==
    /\ Len(subs) <= 2
    /\ \A n \in DOMAIN subs : subs[n].ep = subs[1].ep
    /\ \A t \in Tables :
          version[t] > 0 => \E n \in DOMAIN subs : TableName(subs[n].ep) = t

\* the behaviours in which two subscriptions are on one filter, the
\* relational store answers every query and every channel setup succeeds
NextSameFilter == NextSubscriptions /\ NoFailure' /\ SameFilter'

SpecSameFilter == InitSubscriptions /\ [][NextSameFilter]_vars

\* ------------------------------------------------------ status translation
\* the translations of the file, by the place that evaluates them
Translators == {"updateDonationStatus", "convertSupabaseToFoodDonation",
                "updateRequirementStatus", "convertSupabaseToRequirement",
                "convertSupabaseToRequirementListen", "createMatch"}

\* the statuses a translation enumerates for its argument
Enumerated(fn) ==
    CASE fn = "updateDonationStatus" -> DonationStatuses
      [] fn = "convertSupabaseToFoodDonation" -> FoodItemStatuses
      [] fn = "updateRequirementStatus" -> RequirementStatuses
      [] fn = "createMatch" -> MatchStatuses
      [] OTHER -> RequestStatuses

\* the value of the conditional expression of fn for `status`; none of
\* them has a branch that throws
Translate(fn, status) ==
    CASE fn = "updateDonationStatus" -> DonationStatusToSupabase(status)
      [] fn = "convertSupabaseToFoodDonation" ->
             DonationStatusFromSupabase(status)
      [] fn = "updateRequirementStatus" -> RequirementStatusToSupabase(status)
      [] fn = "convertSupabaseToRequirement" ->
             RequirementStatusFromSupabase(status)
      [] fn = "convertSupabaseToRequirementListen" ->
             RequirementStatusFromSupabaseListen(status)
      [] OTHER -> MatchStatusToSupabase(status)

\* the status strings a row or an argument can carry: the enumerated ones
\* and one that no enumeration has
AnyStatuses ==
    DonationStatuses \cup RequirementStatuses \cup MatchStatuses
        \cup FoodItemStatuses \cup RequestStatuses \cup {"on_hold"}

translationsFrame == <<databaseApp, relVars, mirrorVars, nextPushKey,
                       mockMatches, calls, returned, nCalls, resolved, env,
                       now, built, cacheVars, subsVars, listeners, handles>>

\* a translation is evaluated for a status
translate(fn, status) ==
    /\ Len(translations) < MaxTranslations
    /\ translations' = Append(translations,
           [fn |-> fn, status |-> status, result |-> Translate(fn, status)])
    /\ UNCHANGED translationsFrame

NextTranslations ==
    \E fn \in Translators, status \in AnyStatuses : translate(fn, status)

SpecTranslations == Init /\ [][NextTranslations]_vars

\* ------------------------------------------------- mock-mode listener lists
\* lines 250-251: the two lists
ListenerLists == {"donations", "requirements"}

\* the functions callers register
Callbacks == {"cb1", "cb2"}

\* listeners.indexOf(callback): the first position holding the callback,
\* 0 for the -1 of the code
IndexOf(list, callback) ==
    IF \E j \in DOMAIN list : list[j] = callback
    THEN CHOOSE j \in DOMAIN list :
             /\ list[j] = callback
             /\ \A k \in 1..(j - 1) : list[k] # callback
    ELSE 0

\* listeners.splice(index, 1)
Splice(list, index) ==
    [j \in 1..(Len(list) - 1) |-> IF j < index THEN list[j] ELSE list[j + 1]]

listenersFrame == <<databaseApp, relVars, mirrorVars, nextPushKey,
                    mockMatches, calls, returned, nCalls, resolved, env,
                    now, built, cacheVars, subsVars, translations>>

\* lines 253-254: listeners.push(callback); return the closure over the
\* list and the callback
subscribe(l, callback) ==
    /\ Len(handles) < MaxRegistrations
    /\ listeners' = [listeners EXCEPT ![l] = Append(@, callback)]
    /\ handles' = Append(handles, [list |-> l, callback |-> callback,
                                   calls |-> 0])
    /\ UNCHANGED listenersFrame

\* lines 255-260: a call of the function the k-th subscribe returned
unsubscribeListener(k) ==
    /\ k \in DOMAIN handles
    /\ handles[k].calls < MaxHandleCalls
    /\ LET l == handles[k].list
           index == IndexOf(listeners[l], handles[k].callback)
       IN listeners' = IF index > 0
                       THEN [listeners EXCEPT ![l] = Splice(@, index)]
                       ELSE listeners
    /\ handles' = [handles EXCEPT ![k].calls = @ + 1]
    /\ UNCHANGED listenersFrame

NextListeners ==
    \/ \E l \in ListenerLists, callback \in Callbacks : subscribe(l, callback)
    \/ \E k \in DOMAIN handles : unsubscribeListener(k)

SpecListeners == Init /\ [][NextListeners]_vars

\* the dual-write operations under every configuration of the process
SpecConfig == InitConfig /\ [][Next]_vars

\* ================================================================ claims
\* every call the model holds: the suspended ones and the one just settled
Calls == {i : i \in DOMAIN calls} \cup {returned}

IsCreate(c) == c.op \in CreateOps
IsUpdate(c) == c.op \in UpdateOps

\* the store calls of c that satisfy Test
Events(c, Test(_)) == {j \in DOMAIN c.writes : Test(c.writes[j])}

IsMirrorCall(e) == e.store = "mirror"
IsMirrorWrite(e) == e.store = "mirror" /\ e.kind \in {"set", "update"}
IsFeedWrite(e) == e.store = "mirror" /\ e.kind = "set"
                  /\ e.path[1] = "activity_feed"
IsRecordWrite(e) == IsMirrorWrite(e) /\ e.path[1] # "activity_feed"
IsFeedAppend(e) == IsFeedWrite(e) /\ e.state = "ok"

\* the primary (relational) call of c, always its first store call
PrimaryState(c) ==
    IF c.writes # <<>> /\ c.writes[1].store = "sql"
    THEN c.writes[1].state ELSE "none"

\* the mirror collection and the relational table of an operation
MirrorOf(op) ==
    CASE op \in {"createDonation", "updateDonationStatus"} -> donations
      [] op \in {"createRequirement", "updateRequirementStatus"} -> requirements
      [] OTHER -> matches

TableOf(op) ==
    CASE op \in {"createDonation", "updateDonationStatus"} -> foodItems
      [] op \in {"createRequirement", "updateRequirementStatus"} -> requests
      [] OTHER -> transactions

FeedLength == Cardinality(DOMAIN activityFeed)

\* C1 (as claimed): a create call whose relational write assigned an id
\* resolves with that id and never rejects, whatever the mirror record write
\* and the activity-feed write do.
C1_ResolvesWithIdDespiteMirrorFailure ==
    (IsCreate(returned) /\ returned.rid # NoId)
        => (returned.outcome = "resolved" /\ returned.value = returned.rid)

\* C2: a create call whose relational store call rejects, rejects with that
\* same error and has made no call on the mirror store (no set, no push).
C2_PrimaryRejectionAborts ==
    \A c \in Calls :
        (IsCreate(c) /\ PrimaryState(c) = "rejected")
            => /\ c.outcome = "rejected"
               /\ c.error = SqlError
               /\ Events(c, IsMirrorCall) = {}

C2_Witness ==
    /\ returned.op = "createMatch"
    /\ PrimaryState(returned) = "rejected"
    /\ returned.outcome = "rejected"

\* C3 (as claimed): a create call that resolves returns the id the
\* relational store assigned to the row this call created.
C3_ReturnsRelationalId ==
    (IsCreate(returned) /\ returned.outcome = "resolved")
        => /\ returned.rid # NoId
           /\ returned.value = returned.rid
           /\ returned.value \in DOMAIN TableOf(returned.op)

\* C4 (as claimed): after a create call returned X with the mirror write
\* accepted, the mirror holds the record at <collection>/X, the path the
\* status update called with X writes to.
C4_MirrorKeyedByReturnedId ==
    (IsCreate(returned) /\ returned.outcome = "resolved")
        => /\ returned.value \in DOMAIN MirrorOf(returned.op)
           /\ MirrorOf(returned.op)[returned.value].id = returned.value

\* C5 (as claimed): in every call of the six mutating operations, a write to
\* the mirror store is issued only after a relational write of the same call
\* has completed successfully.
C5_RelationalWriteFirst ==
    \A c \in Calls :
        (IsCreate(c) \/ IsUpdate(c))
            => \A j \in Events(c, IsMirrorWrite) :
                   \E k \in 1..(j - 1) :
                       c.writes[k].store = "sql" /\ c.writes[k].state = "ok"

\* every store call of c was accepted
AllAccepted(c) == \A j \in DOMAIN c.writes : c.writes[j].state = "ok"

C7_FeedAttemptedAfterMirrorFailure ==
    (IsCreate(returned)
        /\ \E j \in Events(returned, IsRecordWrite) :
               returned.writes[j].state = "rejected")
        => Events(returned, IsFeedWrite) # {}

\* C8: updateDonationStatus and updateRequirementStatus reject with the
\* store's error and issue no mirror update when the relational update
\* rejects, and resolve when the relational update succeeds and the mirror
\* update throws.
C8_UpdateErrorHandling ==
    \A c \in Calls :
        c.op \in {"updateDonationStatus", "updateRequirementStatus"}
            => /\ PrimaryState(c) = "rejected"
                      => /\ c.outcome = "rejected"
                         /\ c.error = SqlError
                         /\ Events(c, IsMirrorCall) = {}
               /\ (PrimaryState(c) = "ok"
                     /\ \E j \in Events(c, IsMirrorWrite) :
                            c.writes[j].state = "rejected")
                      => c.outcome = "resolved"

C8_Witness ==
    /\ returned.op = "updateRequirementStatus"
    /\ PrimaryState(returned) = "ok"
    /\ \E j \in Events(returned, IsMirrorWrite) :
           returned.writes[j].state = "rejected"
    /\ returned.outcome = "resolved"

\* C9: the status a status update sends to the relational store translates
\* back to the status the caller passed, and distinct statuses are sent as
\* distinct relational statuses, for donations and for requirements.
C9_StatusRoundTrip ==
    /\ \A c \in Calls :
          /\ c.op = "updateDonationStatus"
                => /\ c.status \in DonationStatuses
                   /\ c.sqlStatus \in FoodItemStatuses
                   /\ DonationStatusFromSupabase(c.sqlStatus) = c.status
                   /\ \A s \in DonationStatuses \ {c.status} :
                          DonationStatusToSupabase(s) # c.sqlStatus
          /\ c.op = "updateRequirementStatus"
                => /\ c.status \in RequirementStatuses
                   /\ c.sqlStatus \in RequestStatuses
                   /\ RequirementStatusFromSupabase(c.sqlStatus) = c.status
                   /\ RequirementStatusFromSupabaseListen(c.sqlStatus) = c.status
                   /\ \A s \in RequirementStatuses \ {c.status} :
                          RequirementStatusToSupabase(s) # c.sqlStatus
    /\ \A id \in DOMAIN foodItems : foodItems[id].status \in FoodItemStatuses
    /\ \A id \in DOMAIN requests : requests[id].status \in RequestStatuses

C9_Witness ==
    /\ returned.op = "updateDonationStatus"
    /\ returned.outcome = "resolved"
    /\ returned.status = "completed"
    /\ returned.target \in DOMAIN foodItems
    /\ foodItems[returned.target].status = "collected"

\* C10 (as claimed): the match status can be recovered from the relational
\* transaction: no other match status is stored as the same relational status.
C10_MatchStatusRecoverable ==
    \A c \in Calls :
        (c.op = "createMatch" /\ c.rid \in DOMAIN transactions)
            => {s \in MatchStatuses :
                   MatchStatusToSupabase(s) = transactions[c.rid].status}
               = {c.status}

\* C20: the activity feed is append-only.  No step changes or removes an
\* entry the feed already holds, and every entry a step adds is written under
\* the key that push(activity_feed) made for that call a step earlier, a key
\* the feed did not hold.
C20_FeedAppendOnly ==
    [][/\ \A k \in DOMAIN activityFeed :
              k \in DOMAIN activityFeed' /\ activityFeed'[k] = activityFeed[k]
       /\ \A k \in DOMAIN activityFeed' \ DOMAIN activityFeed :
              /\ k = returned'.fkey
              /\ k[1] = "push"
              /\ k[2] < nextPushKey
              /\ \E j \in Events(returned', IsFeedAppend) :
                     returned'.writes[j].path = <<"activity_feed", k>>
              /\ activityFeed'[k].id = k]_vars

C20_Witness ==
    /\ returned.fkey \in DOMAIN activityFeed
    /\ \E k \in DOMAIN activityFeed :
           k # returned.fkey /\ activityFeed[k].id = k

\* C18 (as claimed): when either configuration value is missing or is its
\* placeholder, no call of a public operation issues a call to either store.
C18_PlaceholderModeIssuesNoStoreCall ==
    ~isDatabaseAvailable => \A c \in Calls : c.writes = <<>>

\* C19 (as claimed): a donation created at time T with no pickupTime and no
\* expiryDate is stored, in the relational row and in the mirror record, with
\* pickupTime T and expiryDate T + 7 days; a requirement created with no
\* neededBy is stored in both with neededBy T + 7 days.
C19_DefaultDatesInBothCopies ==
    /\ (built.op = "createDonation"
          /\ built.arg.pickupTime = NoTime /\ built.arg.expiryDate = NoTime)
          => /\ built.row.pickup_time = built.at
             /\ built.row.expiry_date = built.at + SevenDays
             /\ built.mirror.pickupTime = built.at
             /\ built.mirror.expiryDate = built.at + SevenDays
    /\ (built.op = "createRequirement" /\ built.arg.neededBy = NoTime)
          => /\ built.row.needed_by = built.at + SevenDays
             /\ built.mirror.neededBy = built.at + SevenDays

\* C16: a getAnalyticsData call that starts less than CACHE_DURATION (30000
\* ms) after the cache was filled resolves at once with the cached object
\* itself, issues no probe and no read, and leaves the cache as it is; a call
\* that starts CACHE_DURATION or more after the fill, or with no cache,
\* issues a probe, resolves with a new object, and that object and the time
\* of its completion replace the cache.
C16_CacheWindow ==
    served # NotServed =>
        IF /\ served.sawCache # NoObject
           /\ served.startedAt - served.sawCacheTime < CACHE_DURATION
        THEN /\ served.hit
             /\ served.value = served.sawCache
             /\ served.storeCalls = 0
             /\ served.doneAt = served.startedAt
             /\ analyticsCache = served.sawCache
             /\ analyticsCacheTime = served.sawCacheTime
        ELSE /\ ~served.hit
             /\ served.storeCalls >= 1
             /\ served.value # NoObject
             /\ served.value # served.sawCache
             /\ analyticsCache = served.value
             /\ analyticsCacheTime = served.doneAt

C16_Witness ==
    /\ served.hit
    /\ served.startedAt - served.sawCacheTime = CACHE_DURATION - 1
    /\ served.value = prev.value
    /\ ~prev.hit

\* C17 (as claimed): a getAnalyticsData call resolves with the same object as
\* a call that settled while it was in flight, also when each of the two ran
\* its own refresh.
C17_ConcurrentCallsSameObject ==
    (served # NotServed /\ served.peer # NoObject)
        => served.value = served.peer

\* C17 (amended): a call served from the cache resolves with the object the
\* call that settled just before it resolved with; a call that ran its own
\* refresh resolves with an object no earlier call resolved with, and the
\* cache holds the object of the call that settled last.
C17_CacheHitsShareObject ==
    /\ served # NotServed => analyticsCache = served.value
    /\ (served # NotServed /\ prev # NotServed)
          => IF served.hit
             THEN served.value = prev.value
             ELSE /\ served.value # prev.value
                  /\ served.value.id > prev.value.id

C17_Witness ==
    /\ ~served.hit
    /\ served.peer # NoObject
    /\ served.peer = prev.value
    /\ ~prev.hit
    /\ analyticsCache = served.value

\* ------------------------------------------------- claims on subscriptions
\* the queries of subscription n in flight that `cause` started
InFlight(n, cause) ==
    BagCardinality([f \in {g \in DOMAIN fetches :
                               g.sub = n /\ g.cause = cause} |-> fetches[f]])

\* the change events the listener of s has handled
EventsHandled(s) == IF s.seen = 0 THEN 0 ELSE s.seen - s.regVersion

\* C11 (as claimed): however often the unsubscribe function a subscribe call
\* returned is called, at most one deregistration call is issued to the
\* channel.
C11_DeregistersOnce ==
    \A n \in DOMAIN subs : subs[n].deregistrations <= 1

C13_FailureDeliversEmpty ==
    /\ unhandled = 0
    /\ \A n \in DOMAIN subs :
          /\ ~subs[n].dropped
          /\ subs[n].pc = "failed" => (subs[n].handed /\ subs[n].noop)

\* C14 (as claimed): once no query of a subscription is in flight, and its
\* listener has handled the event of the last change of the table, the last
\* result its callback was given is the result of the query in the present
\* state of the table.
C14_LastDeliveryIsLatest ==
    \A n \in DOMAIN subs :
        LET s == subs[n]
        IN (/\ InFlight(n, "initial") + InFlight(n, "change") = 0
            /\ s.first # "none" /\ s.lastOk
            /\ s.seen > 0 /\ s.seen = version[TableName(s.ep)])
              => s.last = ConvertRows(s.ep, QueryRows(s.ep))

\* C15 (as claimed): when the change listener of a subscription is
\* registered, and when the caller holds its unsubscribe function, the
\* callback has been called with the initial result; the first callback is
\* never one made by the change handler.
C15_InitialCallbackFirst ==
    \A n \in DOMAIN subs :
        /\ (subs[n].registered \/ (subs[n].handed /\ ~subs[n].noop))
              => subs[n].first = "initial"
        /\ subs[n].first # "change"

\* C21 (as claimed): a status translation evaluated for a status outside the
\* set it enumerates fails with an error and yields no status.
C21_UnknownStatusFailsFast ==
    \A j \in DOMAIN translations :
        translations[j].status \notin Enumerated(translations[j].fn)
            => translations[j].result = "error"

\* the mirror collection a status update writes to
UpdatedCollection(c, d, r) == IF c.op = "updateDonationStatus" THEN d ELSE r

\* the matched-with fields stored at a key: none when nothing is stored
StoredMatchFields(coll, key) ==
    IF key \in DOMAIN coll
    THEN <<coll[key].matchedWith, coll[key].matchedAt>>
    ELSE <<NoId, FALSE>>

\* call c is a donation or requirement status update whose mirror update
\* was accepted
MirrorUpdateAccepted(c) ==
    /\ c.op \in {"updateDonationStatus", "updateRequirementStatus"}
    /\ c.outcome = "resolved"
    /\ c.writes[Len(c.writes)].store = "mirror"
    /\ c.writes[Len(c.writes)].state = "ok"

\* C22: the mirror update of updateDonationStatus / updateRequirementStatus
\* writes the status; it sets matchedWith and matchedAt exactly when a
\* matched-with reference is supplied, and with none it leaves the stored
\* matchedWith and matchedAt as they were.
C22_MatchedFieldsOnlyWhenSupplied ==
    [][MirrorUpdateAccepted(returned') =>
         LET c == returned'
             old == StoredMatchFields(
                        UpdatedCollection(c, donations, requirements), c.target)
             coll == UpdatedCollection(c, donations', requirements')
         IN /\ c.target \in DOMAIN coll
            /\ coll[c.target].status = c.status
            /\ IF c.matchedWith # NoId
               THEN StoredMatchFields(coll, c.target) = <<c.matchedWith, TRUE>>
               ELSE StoredMatchFields(coll, c.target) = old]_vars

\* an update without a reference was accepted for a record that carries the
\* reference of an earlier update
C22_Witness ==
    /\ MirrorUpdateAccepted(returned)
    /\ returned.matchedWith = NoId
    /\ StoredMatchFields(UpdatedCollection(returned, donations, requirements),
                         returned.target) = <<MockId(1), TRUE>>

\* C23 (as claimed): when createDonation / createRequirement has resolved
\* with every store write accepted, the status of the mirror record is the
\* translation of the status of the relational row, whatever status the
\* caller passed.
C23_MirrorStatusIsTranslatedRowStatus ==
    (returned.op \in {"createDonation", "createRequirement"}
        /\ returned.outcome = "resolved" /\ AllAccepted(returned))
    => IF returned.op = "createDonation"
       THEN donations[returned.rid].status =
                DonationStatusFromSupabase(foodItems[returned.rid].status)
       ELSE requirements[returned.rid].status =
                RequirementStatusFromSupabase(requests[returned.rid].status)

\* C24 (as claimed): once the unsubscribe function of a subscription has
\* been called, its callback is not invoked again: no first callback and no
\* callback of the change handler is made from then on, even when a query
\* was in flight at the time of the call.
C24_NoCallbackAfterUnsubscribe ==
    [][\A n \in DOMAIN subs :
          subs[n].deregistrations > 0
              => /\ subs'[n].first = subs[n].first
                 /\ subs'[n].changeCallbacks = subs[n].changeCallbacks]_vars

\* C25: a getAnalyticsData call that gets past the cache check resolves, with
\* the data read from the mirror exactly when the probe answered that the
\* database is available and none of the three reads rejected, and with the
\* placeholder data otherwise; the object it returns is the cache, and the
\* cache timestamp is the time the call completed.
C25_RefreshResolvesAndCaches ==
    (served # NotServed /\ ~served.hit) =>
        /\ served.value # NoObject
        /\ served.probe \in {"available", "unavailable"}
        /\ served.probe = "unavailable" => served.failed = {}
        /\ served.value.source =
               (IF served.probe = "available" /\ served.failed = {}
                THEN "mirror" ELSE "mock")
        /\ analyticsCache = served.value
        /\ analyticsCacheTime = served.doneAt

\* the probe succeeded, one of the three reads rejected and the other two
\* were answered: the call resolved with the placeholder data and cached it
C25_Witness ==
    /\ ~served.hit
    /\ served.probe = "available"
    /\ served.failed = {"matches"}
    /\ served.value.source = "mock"
    /\ analyticsCache = served.value
    /\ analyticsCacheTime = served.doneAt
    /\ served.doneAt > served.startedAt

\* the entries of a list that hold the callback
Occurrences(list, callback) ==
    Cardinality({j \in DOMAIN list : list[j] = callback})

\* the subscribe calls for the callback on list l whose unsubscribe function
\* has not been called
LiveRegistrations(l, callback) ==
    Cardinality({k \in DOMAIN handles :
                    /\ handles[k].list = l
                    /\ handles[k].callback = callback
                    /\ handles[k].calls = 0})

\* C26 (as claimed): each subscribe(listeners, cb) adds one registration and
\* the function it returns removes that one registration on its first call
\* and nothing on later calls: a list holds a callback once for every
\* subscribe call of it whose unsubscribe function has not been called, also
\* when the same callback is registered more than once.
C26_OneRegistrationPerLiveHandle ==
    \A l \in ListenerLists, callback \in Callbacks :
        Occurrences(listeners[l], callback) = LiveRegistrations(l, callback)
====
